---------------------------- MODULE Spec2Model ----------------------------
(***************************************************************************)
(* Battleship: Ship (geometry and damage), Board (fleet validation and     *)
(* attack resolution) and the automatic players of src/battleship.         *)
(*                                                                         *)
(* The grid and the fleet are scaled down: Board.SIZE_X/SIZE_Y are 10 and  *)
(* the fleet has one ship of each length 1..5 in the source; the model     *)
(* keeps the algorithms and shrinks both so that whole games to exhaustion *)
(* can be enumerated.                                                      *)
(*                                                                         *)
(* The bodies of most Ship methods are not in src/battleship/ship.py (they *)
(* are left as TODO); those are modelled from their docstrings and from    *)
(* spec.md section 4.1 and are marked so in MODEL_MAP.json.                *)
(***************************************************************************)
EXTENDS Integers, Sequences, FiniteSets, TLC

\* ------------------------------------------------------------------ bounds
SIZE_X == 3          \* Board.SIZE_X (10 in the source), scaled
SIZE_Y == 2          \* Board.SIZE_Y (10 in the source), scaled
MaxShipLength == 2   \* the fleet has one ship of each length 1..MaxShipLength
MaxShots == 3        \* Board run: distinct cells fired at
MaxTurns == 6        \* Game run: attacks of the attacker
_MAX_TRIES == 2      \* BoardAutomatic._MAX_TRIES (100 in the source), scaled

VARIABLES
    list_ships,                        \* Board.list_ships: Seq of Ship
    set_coordinates_previous_shots,    \* Board.set_coordinates_previous_shots
    board_state,                       \* "new", "ok", "ValueError_lengths", "ValueError_too_close"
    coord,                             \* argument of the last is_attacked_at, or None
    ret,                               \* value returned by the last is_attacked_at, or None
    before,                            \* list_ships as it was before the last is_attacked_at, or None
    repeated,                          \* the last is_attacked_at had the argument of the one before it
    \* the attacker, a PlayerAI, and its position in Player.attacks
    successful_hits,                       \* Player.successful_hits
    set_ships_opponent_previously_sunk,    \* PlayerAI: Ship objects, as positions in list_ships
    set_positions_previously_attacked,     \* PlayerAI.set_positions_previously_attacked
    pc,                                    \* "idle", "random" (in the retry loop), "selected"
    likely_targets,                        \* local of select_coordinates_to_attack
    position_to_attack,                    \* value returned by select_coordinates_to_attack
    last_attack_coord,                     \* PlayerAI.last_attack_coord
    player_class,                          \* class of the attacker: "PlayerAutomatic" or "PlayerRandom"
    \* BoardAutomatic: the position in generate_ships_automatically and the locals
    gen_pc,        \* "idle" (no generation), "for", "while", "draw", "append", "return"
    gen_l,         \* l of generate_ships_automatically: the length being placed
    gen_t,         \* t of generate_ships_automatically: placements tried for this length
    ship_t,        \* t of _generate_random_ship: draws made for this ship
    ship           \* the ship last drawn by _generate_random_ship, or None

board_vars == <<list_ships, set_coordinates_previous_shots, board_state, coord, ret,
                before, repeated>>

player_vars == <<successful_hits, set_ships_opponent_previously_sunk,
                 set_positions_previously_attacked, pc, likely_targets,
                 position_to_attack, last_attack_coord, player_class>>

generator_vars == <<gen_pc, gen_l, gen_t, ship_t, ship>>

vars == <<board_vars, player_vars, generator_vars>>

None == <<>>

Min(a, b) == IF a <= b THEN a ELSE b
Max(a, b) == IF a >= b THEN a ELSE b

\* ------------------------------------------------------------------- Ship
\* Ship.__init__: the corners are normalised; the damage set starts empty.
Ship(coord_start, coord_end) ==
    [x_start |-> Min(coord_start[1], coord_end[1]),
     x_end   |-> Max(coord_start[1], coord_end[1]),
     y_start |-> Min(coord_start[2], coord_end[2]),
     y_end   |-> Max(coord_start[2], coord_end[2]),
     set_coordinates_damages |-> {}]

is_vertical(s) == s.x_start = s.x_end

is_horizontal(s) == s.y_start = s.y_end

\* Ship.__init__ raises ValueError for a ship that is neither.
ShipRaises(coord_start, coord_end) ==
    LET s == Ship(coord_start, coord_end)
    IN  ~is_horizontal(s) /\ ~is_vertical(s)

get_all_coordinates(s) ==
    {<<x, y>> : x \in s.x_start..s.x_end, y \in s.y_start..s.y_end}

length(s) == Cardinality(get_all_coordinates(s))

is_on_coordinate(s, c) == c \in get_all_coordinates(s)

\* mutant: the damage of a cell is flipped instead of set
gets_damage_at_flips(s, c) ==
    IF is_on_coordinate(s, c)
    THEN [s EXCEPT !.set_coordinates_damages =
                IF c \in @ THEN @ \ {c} ELSE @ \cup {c}]
    ELSE s

gets_damage_at(s, c) ==
    IF is_on_coordinate(s, c)
    THEN [s EXCEPT !.set_coordinates_damages = @ \cup {c}]
    ELSE s

is_damaged_at(s, c) == c \in s.set_coordinates_damages

number_damages(s) == Cardinality(s.set_coordinates_damages)

has_sunk(s) == s.set_coordinates_damages = get_all_coordinates(s)

\* mutant: the cells at the corners of the ship are not near it
is_near_coordinate_no_corners(s, c) ==
    \/ /\ s.x_start - 1 <= c[1] /\ c[1] <= s.x_end + 1
       /\ s.y_start <= c[2] /\ c[2] <= s.y_end
    \/ /\ s.x_start <= c[1] /\ c[1] <= s.x_end
       /\ s.y_start - 1 <= c[2] /\ c[2] <= s.y_end + 1

is_near_coordinate(s, c) ==
    /\ s.x_start - 1 <= c[1] /\ c[1] <= s.x_end + 1
    /\ s.y_start - 1 <= c[2] /\ c[2] <= s.y_end + 1

is_near_ship(s, other_ship) ==
    \E c \in get_all_coordinates(other_ship) : is_near_coordinate(s, c)

\* ------------------------------------------------------------------ Board
DICT_NUMBER_SHIPS_PER_LENGTH == [l \in 1..MaxShipLength |-> 1]

Cells == (1..SIZE_X) \X (1..SIZE_Y)

valid_coordinates(c) ==
    /\ 1 <= c[1] /\ c[1] <= SIZE_X
    /\ 1 <= c[2] /\ c[2] <= SIZE_Y

\* the dict built by lengths_of_ships_correct: length -> number of ships
LengthsDict(ships) ==
    LET ls == {length(ships[i]) : i \in DOMAIN ships}
    IN  [l \in ls |-> Cardinality({i \in DOMAIN ships : length(ships[i]) = l})]

lengths_of_ships_correct(ships) ==
    LengthsDict(ships) = DICT_NUMBER_SHIPS_PER_LENGTH

\* mutant: only ships that share a cell count as too close
valid_ship_placements_overlap_only(ships) ==
    \A i \in DOMAIN ships : \A j \in DOMAIN ships :
        i < j => get_all_coordinates(ships[i]) \cap get_all_coordinates(ships[j]) = {}

\* mutant: p[0] == p[1] in place of p[0] != p[1]; no pair of two objects
\* is ever too close
valid_ship_placements_same_object(ships) ==
    \A i \in DOMAIN ships : \A j \in DOMAIN ships :
        i < j => ~(is_near_ship(ships[i], ships[j]) /\ i = j)

\* combinations(list_ships, 2): the pairs of positions i < j.  p[0] != p[1]
\* compares two Ship objects, which define no __eq__: object identity, and
\* the objects of a pair are two objects unless the list holds one object
\* twice, which a list of freshly constructed ships does not.
valid_ship_placements(ships) ==
    \A i \in DOMAIN ships : \A j \in DOMAIN ships :
        i < j => ~is_near_ship(ships[i], ships[j])

are_some_ships_too_close_from_each_other(ships) ==
    ~valid_ship_placements(ships)

\* mutant: the loop returns True at the first sunk ship
has_no_ships_left_any_sunk(ships) ==
    \E i \in DOMAIN ships : has_sunk(ships[i])

has_no_ships_left(ships) ==
    \A i \in DOMAIN ships : has_sunk(ships[i])

\* index of the first ship of the list on c, 0 when there is none
FirstShipOn(ships, c) ==
    IF \E i \in DOMAIN ships : c \in get_all_coordinates(ships[i])
    THEN CHOOSE i \in DOMAIN ships :
            /\ c \in get_all_coordinates(ships[i])
            /\ \A j \in DOMAIN ships :
                   c \in get_all_coordinates(ships[j]) => i <= j
    ELSE 0

\* mutant: the damage is recorded on every ship, on the cell or not
ShipsAfterAttack_damages_all(ships, c) ==
    [i \in DOMAIN ships |->
        [ships[i] EXCEPT !.set_coordinates_damages = @ \cup {c}]]

\* mutant: the loop looks at the first ship of the list only
ShipsAfterAttack_first_ship_only(ships, c) ==
    IF Len(ships) > 0 /\ c \in get_all_coordinates(ships[1])
    THEN [ships EXCEPT ![1] = gets_damage_at(ships[1], c)]
    ELSE ships

\* Board.is_attacked_at as a function of the fleet: the fleet afterwards
ShipsAfterAttack(ships, c) ==
    LET i == FirstShipOn(ships, c)
    IN  IF i = 0 THEN ships
        ELSE [ships EXCEPT ![i] = gets_damage_at(ships[i], c)]

\* mutant: is_damaged_at() is read before the damage is applied
AttackResult_damage_read_before(ships, c) ==
    LET i == FirstShipOn(ships, c)
    IN  IF i = 0 THEN <<FALSE, FALSE>>
        ELSE <<is_damaged_at(ships[i], c), has_sunk(gets_damage_at(ships[i], c))>>

\* mutant: has_sunk() is read before the damage is applied
AttackResult_sunk_before_damage(ships, c) ==
    LET i == FirstShipOn(ships, c)
    IN  IF i = 0 THEN <<FALSE, FALSE>>
        ELSE <<is_damaged_at(gets_damage_at(ships[i], c), c), has_sunk(ships[i])>>

\* ... and the pair it returns
AttackResult(ships, c) ==
    LET i == FirstShipOn(ships, c)
    IN  IF i = 0 THEN <<FALSE, FALSE>>
        ELSE LET s == gets_damage_at(ships[i], c)
             IN  <<is_damaged_at(s, c), has_sunk(s)>>

\* --------------------------------------------------------- candidate fleets
\* Corners handed to Ship(): the grid and one more column, so that a ship
\* may reach over the edge (neither Ship nor Board checks valid_coordinates;
\* BoardAutomatic._generate_random_ship starts a ship on the grid and may
\* end it outside).
ShipCorners == (1..SIZE_X + 1) \X (1..SIZE_Y)

\* the ships a caller can construct, with a cell on the grid at least
AllShips ==
    {s \in {Ship(p[1], p[2]) : p \in
                {q \in ShipCorners \X ShipCorners : ~ShipRaises(q[1], q[2])}} :
        get_all_coordinates(s) \cap Cells # {}}

\* sum(DICT_NUMBER_SHIPS_PER_LENGTH.values())
total_number_of_ships == MaxShipLength

ShipsOfLength(l) == {s \in AllShips : length(s) = l}

\* one ship of each required length, in the order of the lengths
FleetsAscending ==
    {f \in [1..MaxShipLength -> AllShips] :
        \A l \in 1..MaxShipLength : length(f[l]) = l}

\* The fleets handed to Board.__init__: the required lengths (ships
\* anywhere, so also too close), one ship missing, one ship too many, and
\* the right number of ships with a second one of length 1.
Fleets ==
    FleetsAscending
    \cup {Tail(f) : f \in FleetsAscending}
    \cup {SubSeq(f, 1, Len(f) - 1) : f \in FleetsAscending}
    \cup {Append(f, s) : <<f, s>> \in FleetsAscending \X ShipsOfLength(1)}
    \cup {Append(SubSeq(f, 1, Len(f) - 1), s) :
             <<f, s>> \in FleetsAscending \X ShipsOfLength(1)}

\* ----------------------------------------------------------------- Player
\* PlayerAI.__init__ and Player.__init__
\* no BoardAutomatic is being generated
GeneratorIdle ==
    /\ gen_pc = "idle"
    /\ gen_l = 0
    /\ gen_t = 0
    /\ ship_t = 0
    /\ ship = None

PlayerInit ==
    /\ successful_hits = {}
    /\ set_ships_opponent_previously_sunk = {}
    /\ set_positions_previously_attacked = {}
    /\ pc = "idle"
    /\ likely_targets = {}
    /\ position_to_attack = None
    /\ last_attack_coord = None

\* mutant: only the four orthogonal neighbours of a hit
_get_positions_near_hits_orthogonal(hits) ==
    {<<h[1] + i, h[2] + j>> : <<h, i, j>> \in
        {q \in hits \X {-1, 0, 1} \X {-1, 0, 1} :
            /\ (q[2] # 0 \/ q[3] # 0)
            /\ (q[2] = 0 \/ q[3] = 0)
            /\ valid_coordinates(<<q[1][1] + q[2], q[1][2] + q[3]>>)}}

\* PlayerAutomatic._get_positions_near_hits
_get_positions_near_hits(hits) ==
    {<<h[1] + i, h[2] + j>> : <<h, i, j>> \in
        {q \in hits \X {-1, 0, 1} \X {-1, 0, 1} :
            /\ (q[2] # 0 \/ q[3] # 0)
            /\ valid_coordinates(<<q[1][1] + q[2], q[1][2] + q[3]>>)}}

\* mutant: a ship is remembered as soon as it is damaged
_update_sunk_ships_adds_damaged(sunk, ships) ==
    sunk \cup {i \in DOMAIN ships : number_damages(ships[i]) > 0}

\* mutant: the loop stops at the first sunk ship of the list
_update_sunk_ships_first_only(sunk, ships) ==
    sunk \cup {i \in DOMAIN ships :
                 has_sunk(ships[i]) /\ \A j \in 1..(i - 1) : ~has_sunk(ships[j])}

\* PlayerAutomatic._update_sunk_ships: the remembered set afterwards
_update_sunk_ships(sunk, ships) ==
    sunk \cup {i \in DOMAIN ships : has_sunk(ships[i])}

\* PlayerAutomatic._get_positions_near_ships
_get_positions_near_ships(sunk, ships) ==
    {c \in Cells : \E i \in sunk : is_near_coordinate(ships[i], c)}

\* mutant: the positions near sunk ships are not removed
_get_likely_targets_keeps_duds(hits, sunk, attacked, ships) ==
    _get_positions_near_hits(hits) \ attacked

\* PlayerAutomatic._get_likely_targets
_get_likely_targets(hits, sunk, attacked, ships) ==
    (_get_positions_near_hits(hits) \ _get_positions_near_ships(sunk, ships))
        \ attacked

\* PlayerAI._is_position_near_previously_sunk_ship
_is_position_near_previously_sunk_ship(c, sunk, ships) ==
    \E i \in sunk : has_sunk(ships[i]) /\ is_near_coordinate(ships[i], c)

\* mutant: the loop rejects the cells near any ship of the opponent
RandomLoopContinues_near_any_ship(c, attacked, sunk, ships) ==
    \/ c \in attacked
    \/ \E i \in DOMAIN ships : is_near_coordinate(ships[i], c)

\* mutant: the loop tests only the sunk ships
RandomLoopContinues_ignores_attacked(c, attacked, sunk, ships) ==
    _is_position_near_previously_sunk_ship(c, sunk, ships)

\* the test of the retry loop of select_random_coordinates_to_attack
RandomLoopContinues(c, attacked, sunk, ships) ==
    \/ c \in attacked
    \/ _is_position_near_previously_sunk_ship(c, sunk, ships)

\* ------------------------------------------------------------- Board run
Init ==
    /\ list_ships \in Fleets
    /\ set_coordinates_previous_shots = {}
    /\ board_state = "new"
    /\ coord = None
    /\ ret = None
    /\ before = None
    /\ repeated = FALSE
    /\ PlayerInit
    /\ player_class = "PlayerAutomatic"
    /\ GeneratorIdle

\* Board.__init__
BoardInit ==
    /\ board_state = "new"
    /\ board_state' =
         IF ~lengths_of_ships_correct(list_ships) THEN "ValueError_lengths"
         ELSE IF are_some_ships_too_close_from_each_other(list_ships)
              THEN "ValueError_too_close"
              ELSE "ok"
    /\ UNCHANGED <<list_ships, set_coordinates_previous_shots, coord, ret,
                   before, repeated>>
    /\ UNCHANGED player_vars
    /\ UNCHANGED generator_vars

\* Board.is_attacked_at(coord_x, coord_y)
is_attacked_at(c) ==
    /\ board_state = "ok"
    /\ Cardinality(set_coordinates_previous_shots \cup {c}) <= MaxShots
    /\ set_coordinates_previous_shots' = set_coordinates_previous_shots \cup {c}
    /\ list_ships' = ShipsAfterAttack(list_ships, c)
    /\ ret' = AttackResult(list_ships, c)
    /\ coord' = c
    /\ before' = list_ships
    /\ repeated' = (coord = c)
    /\ UNCHANGED board_state
    /\ UNCHANGED player_vars
    /\ UNCHANGED generator_vars

Next ==
    \/ BoardInit
    \/ \E c \in Cells : is_attacked_at(c)

Spec == Init /\ [][Next]_vars

\* --------------------------------------------------------------- Game run
\* A PlayerAutomatic is the only attacker of an opponent whose Board was
\* constructed without error.

\* mutant: Board.__init__ without the test of the distances
AcceptedFleets_lengths_only ==
    {f \in FleetsAscending : lengths_of_ships_correct(f)}

\* the fleets Board.__init__ accepts
AcceptedFleets ==
    {f \in FleetsAscending :
        lengths_of_ships_correct(f) /\ ~are_some_ships_too_close_from_each_other(f)}

\* a constructed Board and a freshly constructed attacker of class class
GameInitOf(class) ==
    /\ list_ships \in AcceptedFleets
    /\ set_coordinates_previous_shots = {}
    /\ board_state = "ok"
    /\ coord = None
    /\ ret = None
    /\ before = None
    /\ repeated = FALSE
    /\ PlayerInit
    /\ player_class = class
    /\ GeneratorIdle

GameInit == GameInitOf("PlayerAutomatic")

\* PlayerAutomatic.select_coordinates_to_attack, up to its return or to the
\* entry of the retry loop (player.py 206-215)
select_coordinates_to_attack ==
    /\ pc = "idle"
    /\ LET sunk == _update_sunk_ships(set_ships_opponent_previously_sunk, list_ships)
           likely == _get_likely_targets(successful_hits, sunk,
                        set_positions_previously_attacked, list_ships)
       IN  /\ set_ships_opponent_previously_sunk' = sunk
           /\ likely_targets' = likely
           /\ IF likely # {}
              THEN \E p \in likely :      \* likely_targets.pop(): an arbitrary member
                      /\ position_to_attack' = p
                      /\ set_positions_previously_attacked' =
                             set_positions_previously_attacked \cup {p}
                      /\ pc' = "selected"
              ELSE /\ position_to_attack' = None
                   /\ pc' = "random"
                   /\ UNCHANGED set_positions_previously_attacked
    /\ UNCHANGED <<successful_hits, last_attack_coord, player_class, board_vars,
                   generator_vars>>

\* Player.attacks of a PlayerAutomatic up to there (player.py 48), for
\* games of at most MaxTurns attacks
Select ==
    /\ Cardinality(set_positions_previously_attacked) < MaxTurns
    /\ select_coordinates_to_attack

\* One iteration of the retry loop of select_random_coordinates_to_attack
\* (player.py 141-145) drawing c = _get_random_coordinates() and, when the
\* loop ends, the return (147, 214-215).  A rejected draw changes only the
\* loop's locals, which the next iteration overwrites: the state stays.
RandomDraw(c) ==
    /\ pc = "random"
    /\ IF RandomLoopContinues(c, set_positions_previously_attacked,
                              set_ships_opponent_previously_sunk, list_ships)
       THEN UNCHANGED <<pc, position_to_attack, set_positions_previously_attacked>>
       ELSE /\ position_to_attack' = c
            /\ set_positions_previously_attacked' =
                   set_positions_previously_attacked \cup {c}
            /\ pc' = "selected"
    /\ UNCHANGED <<successful_hits, set_ships_opponent_previously_sunk,
                   likely_targets, last_attack_coord, player_class, board_vars,
                   generator_vars>>

\* The rest of Player.attacks (player.py 53-64): the opponent's Board
\* resolves the attack and a hit is remembered.  The locals of the call end
\* with it; coord and ret record the call of is_attacked_at in the Board run
\* only.
Resolve ==
    /\ pc = "selected"
    /\ LET c == position_to_attack
           r == AttackResult(list_ships, c)
       IN  /\ set_coordinates_previous_shots' = set_coordinates_previous_shots \cup {c}
           /\ list_ships' = ShipsAfterAttack(list_ships, c)
           /\ successful_hits' = IF r[1] THEN successful_hits \cup {c} ELSE successful_hits
    /\ pc' = "idle"
    /\ likely_targets' = {}
    /\ position_to_attack' = None
    /\ UNCHANGED <<board_state, coord, ret, before, repeated,
                   set_ships_opponent_previously_sunk,
                   set_positions_previously_attacked, last_attack_coord,
                   player_class, generator_vars>>

GameNext ==
    \/ Select
    \/ \E c \in Cells : RandomDraw(c)
    \/ Resolve

GameSpec == GameInit /\ [][GameNext]_vars

\* ------------------------------------------------------- Random game run
\* A PlayerRandom is the only attacker of an opponent whose Board was
\* constructed without error.

\* Player.attacks of a PlayerRandom, up to the entry of the retry loop
\* (player.py 48, 221-222): _update_sunk_ships is not called.
PlayerRandom_Select ==
    /\ pc = "idle"
    /\ Cardinality(set_positions_previously_attacked) < MaxTurns
    /\ pc' = "random"
    /\ UNCHANGED <<successful_hits, set_ships_opponent_previously_sunk,
                   set_positions_previously_attacked, likely_targets,
                   position_to_attack, last_attack_coord, player_class,
                   board_vars, generator_vars>>

\* One iteration of the retry loop drawing c and, when the loop ends, the
\* return of PlayerRandom.select_coordinates_to_attack (player.py 141-147,
\* 224-226).
PlayerRandom_Draw(c) ==
    /\ pc = "random"
    /\ IF RandomLoopContinues(c, set_positions_previously_attacked,
                              set_ships_opponent_previously_sunk, list_ships)
       THEN UNCHANGED <<pc, position_to_attack, last_attack_coord,
                        set_positions_previously_attacked>>
       ELSE /\ position_to_attack' = c
            /\ set_positions_previously_attacked' =
                   set_positions_previously_attacked \cup {c}
            /\ last_attack_coord' = c
            /\ pc' = "selected"
    /\ UNCHANGED <<successful_hits, set_ships_opponent_previously_sunk,
                   likely_targets, player_class, board_vars, generator_vars>>

RandomGameNext ==
    \/ PlayerRandom_Select
    \/ \E c \in Cells : PlayerRandom_Draw(c)
    \/ Resolve

RandomGameInit == GameInitOf("PlayerRandom")

RandomGameSpec == RandomGameInit /\ [][RandomGameNext]_vars

\* ------------------------------------------------- either automatic attacker
\* The attacker is a PlayerAutomatic or a PlayerRandom; Player.attacks calls
\* the select_coordinates_to_attack of its class.
EitherGameInit == GameInit \/ RandomGameInit

EitherGameNext ==
    \/ player_class = "PlayerAutomatic" /\ GameNext
    \/ player_class = "PlayerRandom" /\ RandomGameNext

EitherGameSpec == EitherGameInit /\ [][EitherGameNext]_vars

\* ------------------------------------------------ a constructed Board
\* Board.is_attacked_at called on a Board that was constructed without
\* error, at the cells of the grid.
AttackNext == \E c \in Cells : is_attacked_at(c)

AttackSpec == GameInit /\ [][AttackNext]_vars

\* ------------------------------------------------- attacks at any coordinate
\* Board.is_attacked_at takes any pair of integers (board.py 53-59 does not
\* call valid_coordinates): the grid and the ring of coordinates around it.
Coordinates == (0..SIZE_X + 1) \X (0..SIZE_Y + 1)

AnywhereNext == \E c \in Coordinates : is_attacked_at(c)

\* a constructed Board attacked at coordinates on and off the grid
AnywhereSpec == GameInit /\ [][AnywhereNext]_vars

\* ------------------------------------------------------ one ship, queried
\* A ship is constructed and asked is_near_coordinate for coordinates on
\* and around the grid; coord and ret record the call.
NearInit ==
    /\ list_ships \in {<<s>> : s \in AllShips}
    /\ set_coordinates_previous_shots = {}
    /\ board_state = "new"
    /\ coord = None
    /\ ret = None
    /\ before = None
    /\ repeated = FALSE
    /\ PlayerInit
    /\ player_class = "PlayerAutomatic"
    /\ GeneratorIdle

\* Ship.is_near_coordinate(coord_x, coord_y)
NearCall(c) ==
    /\ coord' = c
    /\ ret' = is_near_coordinate(list_ships[1], c)
    /\ UNCHANGED <<list_ships, set_coordinates_previous_shots, board_state,
                   before, repeated>>
    /\ UNCHANGED player_vars
    /\ UNCHANGED generator_vars

NearNext == \E c \in Coordinates : NearCall(c)

NearSpec == NearInit /\ [][NearNext]_vars

\* -------------------------------------------------------- BoardAutomatic
\* BoardAutomatic.__init__: generate_ships_automatically builds the fleet,
\* Board.__init__ validates it.

AutoInit ==
    /\ list_ships = <<>>
    /\ set_coordinates_previous_shots = {}
    /\ board_state = "new"
    /\ coord = None
    /\ ret = None
    /\ before = None
    /\ repeated = FALSE
    /\ PlayerInit
    /\ player_class = "PlayerAutomatic"
    /\ gen_pc = "for"
    /\ gen_l = 0
    /\ gen_t = 0
    /\ ship_t = 0
    /\ ship = None

\* for l in DICT_NUMBER_SHIPS_PER_LENGTH.keys(): the next length, in the
\* order of the dict, or the return of the list (board.py 169-172, 179)
generate_ships_automatically_for ==
    /\ gen_pc = "for"
    /\ IF gen_l < MaxShipLength
       THEN /\ gen_l' = gen_l + 1
            /\ gen_t' = 0
            /\ gen_pc' = "while"
       ELSE /\ gen_pc' = "return"
            /\ UNCHANGED <<gen_l, gen_t>>
    /\ UNCHANGED <<ship_t, ship, board_vars, player_vars>>

\* while not valid_list and t < _MAX_TRIES, valid_list being False here:
\* the call of _generate_random_ship, or the end of the loop with no ship
\* of this length in the list (board.py 172-173)
generate_ships_automatically_while ==
    /\ gen_pc = "while"
    /\ IF gen_t < _MAX_TRIES
       THEN /\ ship_t' = 0
            /\ gen_pc' = "draw"
       ELSE /\ gen_pc' = "for"
            /\ UNCHANGED ship_t
    /\ UNCHANGED <<gen_l, gen_t, ship, board_vars, player_vars>>

\* One iteration of the loop of _generate_random_ship (board.py 148-161)
\* with the draws start, vertical and l, and its return (162) when the end
\* of the ship is on the grid or the tries are used up.
_generate_random_ship(start, vertical, l) ==
    /\ gen_pc = "draw"
    /\ ship_t < _MAX_TRIES
    /\ LET end == IF vertical THEN <<start[1], start[2] + l>>
                              ELSE <<start[1] + l, start[2]>>
           valid == valid_coordinates(end)
       IN  /\ ship' = Ship(start, end)
           /\ ship_t' = ship_t + 1
           /\ gen_pc' = IF valid \/ ship_t + 1 >= _MAX_TRIES THEN "append" ELSE "draw"
    /\ UNCHANGED <<gen_l, gen_t, board_vars, player_vars>>

\* the rest of the body of the while loop (board.py 174-178): the ship is
\* appended, and popped again when the list is not a valid placement
generate_ships_automatically_append ==
    /\ gen_pc = "append"
    /\ LET valid_list == valid_ship_placements(Append(list_ships, ship))
       IN  /\ list_ships' = IF valid_list THEN Append(list_ships, ship) ELSE list_ships
           /\ gen_pc' = IF valid_list THEN "for" ELSE "while"
    /\ gen_t' = gen_t + 1
    /\ ship' = None
    /\ UNCHANGED <<gen_l, ship_t, set_coordinates_previous_shots, board_state,
                   coord, ret, before, repeated, player_vars>>

\* super().__init__(list_ships=...) on the returned list (board.py 142-143)
BoardAutomaticInit ==
    /\ gen_pc = "return"
    /\ BoardInit

AutoNext ==
    \/ generate_ships_automatically_for
    \/ generate_ships_automatically_while
    \/ \E start \in Cells : \E vertical \in BOOLEAN :
          \E l \in {-gen_l + 1, gen_l - 1} :
              _generate_random_ship(start, vertical, l)
    \/ generate_ships_automatically_append
    \/ BoardAutomaticInit

AutoSpec == AutoInit /\ [][AutoNext]_vars

\* the construction goes on while it can
FairAutoSpec == AutoSpec /\ WF_vars(AutoNext)

\* =================================================================== claims
\* Footprints, distances and the fleet conditions as spec.md states them
\* (sections 3 and 4), written without the code's helpers.

Abs(n) == IF n < 0 THEN -n ELSE n

Chebyshev(a, b) == Max(Abs(a[1] - b[1]), Abs(a[2] - b[2]))

Footprint(s) ==
    {c \in (s.x_start..s.x_end) \X (s.y_start..s.y_end) : TRUE}

Damaged(s) == s.set_coordinates_damages

HistogramRight(ships) ==
    /\ \A l \in 1..MaxShipLength :
          Cardinality({i \in DOMAIN ships : Cardinality(Footprint(ships[i])) = l}) = 1
    /\ \A i \in DOMAIN ships : Cardinality(Footprint(ships[i])) \in 1..MaxShipLength

TwoShipsTooClose(ships) ==
    \E i \in DOMAIN ships : \E j \in DOMAIN ships :
        /\ i # j
        /\ \E a \in Footprint(ships[i]) : \E b \in Footprint(ships[j]) :
               Chebyshev(a, b) <= 1

ShipsOn(ships, c) == {i \in DOMAIN ships : c \in Footprint(ships[i])}

\* C3: Board construction succeeds iff the fleet has exactly one ship of
\* each required length and no two distinct ships overlap or are adjacent
\* (diagonals included); a wrong histogram gives the fleet-composition
\* error, a right histogram with two ships too close the too-close error.
C3_ConstructionIffValidFleet ==
    board_state # "new" =>
        /\ board_state = "ok" <=>
               (HistogramRight(list_ships) /\ ~TwoShipsTooClose(list_ships))
        /\ ~HistogramRight(list_ships) => board_state = "ValueError_lengths"
        /\ (HistogramRight(list_ships) /\ TwoShipsTooClose(list_ships))
               => board_state = "ValueError_too_close"

\* a fleet of the right lengths whose ships touch only by the diagonal
\* cells (1,1) and (2,2) was rejected as too close
C3_Witness ==
    /\ board_state = "ValueError_too_close"
    /\ Len(list_ships) = MaxShipLength
    /\ Footprint(list_ships[1]) = {<<1, 1>>}
    /\ <<2, 2>> \in Footprint(list_ships[2])
    /\ \A b \in Footprint(list_ships[2]) : Chebyshev(<<1, 1>>, b) >= 1

C5_SunkIffThisAttackSank ==
    coord # None =>
        (ret[2] <=>
            \E i \in ShipsOn(list_ships, coord) :
                /\ Damaged(before[i]) # Footprint(before[i])
                /\ Damaged(list_ships[i]) = Footprint(list_ships[i]))

\* C6: a second attack at c immediately after an attack at c leaves every
\* ship's damaged set, damage count and has_sunk() as the first left them.
C6_RepeatedAttackChangesNoShip ==
    [][(board_state = "ok" /\ coord # None /\ coord' = coord) =>
          /\ Len(list_ships') = Len(list_ships)
          /\ \A i \in DOMAIN list_ships :
                /\ Damaged(list_ships'[i]) = Damaged(list_ships[i])
                /\ number_damages(list_ships'[i]) = number_damages(list_ships[i])
                /\ has_sunk(list_ships'[i]) = has_sunk(list_ships[i])]_vars

\* a damaged ship cell was attacked twice in a row
C6_Witness ==
    /\ repeated
    /\ ret[1] = TRUE
    /\ \E i \in ShipsOn(list_ships, coord) : coord \in Damaged(before[i])

\* C7: a ship is sunk iff every one of its cells has been attacked; so a
\* ship of more than one cell is not sunk by attacks on a single cell.
C7_SunkIffAllCellsAttacked ==
    board_state = "ok" =>
        \A i \in DOMAIN list_ships :
            has_sunk(list_ships[i]) <=>
                Footprint(list_ships[i]) \subseteq set_coordinates_previous_shots

\* a ship of more than one cell has sunk
C7_Witness ==
    /\ board_state = "ok"
    /\ \E i \in DOMAIN list_ships :
          /\ Cardinality(Footprint(list_ships[i])) > 1
          /\ has_sunk(list_ships[i])

\* C8: has_no_ships_left() is True iff every ship's damage count equals its
\* length, and False while a ship has an undamaged cell.
C8_NoShipsLeftIffAllDamaged ==
    board_state = "ok" =>
        /\ has_no_ships_left(list_ships) <=>
               \A i \in DOMAIN list_ships :
                   Cardinality(Damaged(list_ships[i])) =
                       Cardinality(Footprint(list_ships[i]))
        /\ (\E i \in DOMAIN list_ships :
                Footprint(list_ships[i]) \ Damaged(list_ships[i]) # {})
               => ~has_no_ships_left(list_ships)

\* every ship of the fleet has sunk
C8_Witness ==
    /\ board_state = "ok"
    /\ coord # None
    /\ has_no_ships_left(list_ships)

\* ------------------------------------------------------- claims on the game

\* C1: no call of select_coordinates_to_attack returns a coordinate that was
\* in set_positions_previously_attacked before the call; the attacker never
\* fires twice at the same cell.
C1_NeverReturnsAttackedCell ==
    [][(pc # "selected" /\ pc' = "selected") =>
          /\ position_to_attack' \notin set_positions_previously_attacked
          /\ position_to_attack' \notin set_coordinates_previous_shots]_vars

\* the attacker was returned the last cell of the grid it had not fired at
C1_Witness ==
    /\ pc = "selected"
    /\ set_positions_previously_attacked = Cells
    /\ set_coordinates_previous_shots = Cells \ {position_to_attack}

\* C2: the coordinate returned by select_coordinates_to_attack is not near
\* any ship of the remembered sunk set, a ship sunk by the attacker's
\* preceding shot included.
C2_ReturnedCellNotNearSunkShip ==
    pc = "selected" =>
        \A i \in set_ships_opponent_previously_sunk
                  \cup {j \in DOMAIN list_ships : has_sunk(list_ships[j])} :
            ~is_near_coordinate(list_ships[i], position_to_attack)

\* every shot so far was on one ship, so the preceding shot sank it; it is
\* remembered and a coordinate was returned
C2_Witness ==
    /\ pc = "selected"
    /\ \E i \in set_ships_opponent_previously_sunk :
          set_coordinates_previous_shots = Footprint(list_ships[i])

\* the candidate set as spec.md 4.3 step 2 states it
Candidates ==
    {c \in Cells :
        /\ \E h \in successful_hits : Chebyshev(c, h) = 1
        /\ c \notin set_coordinates_previous_shots
        /\ \A i \in set_ships_opponent_previously_sunk :
               ~is_near_coordinate(list_ships[i], c)}

\* C10: on every turn the candidate set is the in-grid 8-neighbours of the
\* successful hits minus the attacked coordinates minus the coordinates near
\* a remembered sunk ship; a non-empty candidate set gives the returned
\* coordinate, and the random search runs only when it is empty.
C10_CandidateSet ==
    pc \in {"selected", "random"} =>
        /\ likely_targets = Candidates
        /\ likely_targets # {} =>
               (pc = "selected" /\ position_to_attack \in likely_targets)
        /\ pc = "random" => likely_targets = {}

\* one hit, no sunk ship: the candidates are the in-grid neighbours of the
\* hit that were not attacked, and one of them was returned
C10_Witness ==
    /\ pc = "selected"
    /\ set_ships_opponent_previously_sunk = {}
    /\ \E h \in Cells :
          /\ successful_hits = {h}
          /\ set_coordinates_previous_shots # {h}
          /\ likely_targets =
                 {c \in Cells : Chebyshev(c, h) = 1} \ set_coordinates_previous_shots
    /\ position_to_attack \in likely_targets

\* a cell the retry loop accepts
LegalCell(c) ==
    /\ c \in Cells
    /\ c \notin set_positions_previously_attacked
    /\ \A i \in set_ships_opponent_previously_sunk :
           ~is_near_coordinate(list_ships[i], c)

\* C9: at every call made while the opponent has not lost, a cell that is
\* neither attacked nor near a remembered sunk ship exists, so the retry
\* loop of select_random_coordinates_to_attack terminates.
C9_LegalCellWhileNotLost ==
    (pc = "random" /\ ~has_no_ships_left(list_ships)) =>
        \E c \in Cells : LegalCell(c)

\* The two parts of C9 that hold.  With every ship on the grid the legal
\* cell exists at every call made while the opponent has not lost ...
ShipsOnGrid ==
    \A i \in DOMAIN list_ships : Footprint(list_ships[i]) \subseteq Cells

C9_LegalCellWhenShipsOnGrid ==
    (ShipsOnGrid /\ pc = "random" /\ ~has_no_ships_left(list_ships)) =>
        \E c \in Cells : LegalCell(c)

\* ... and the retry loop ends whenever a legal cell exists, the draws being
\* fair: a draw that ends the loop stays possible until it is made.
FairGameSpec == GameSpec /\ WF_vars(\E c \in Cells : RandomDraw(c))

C9_LoopEndsWhenLegalCellExists ==
    (pc = "random" /\ \E c \in Cells : LegalCell(c)) ~> (pc = "selected")

\* C11: every coordinate returned by PlayerRandom.select_coordinates_to_attack
\* is on the grid, was not attacked by the player before, and is not near
\* any opponent ship this player's earlier attacks have sunk (the player
\* being the only attacker, every sunk ship was reported sunk to it).
C11_RandomReturnsLegalCell ==
    pc = "selected" =>
        /\ position_to_attack \in Cells
        /\ position_to_attack \notin set_coordinates_previous_shots
        /\ \A i \in DOMAIN list_ships :
               has_sunk(list_ships[i]) =>
                   ~is_near_coordinate(list_ships[i], position_to_attack)

\* The part of C11 that holds: on the grid and not attacked before.
C11_RandomReturnsFreshGridCell ==
    pc = "selected" =>
        /\ position_to_attack \in Cells
        /\ position_to_attack \notin set_coordinates_previous_shots

\* The remembered sunk set of a PlayerRandom stays empty.
C11_RandomRemembersNoSunkShip ==
    set_ships_opponent_previously_sunk = {}

\* C12: an attack at a coordinate outside the grid on a constructed Board is
\* resolved as a miss: it returns (False, False) and damages no ship (the
\* code raises nothing, so "always rejected" is not the way it handles it).
C12_OffGridAttackIsMiss ==
    (coord # None /\ ~valid_coordinates(coord)) =>
        /\ ret = <<FALSE, FALSE>>
        /\ list_ships = before

\* The part of C12 that holds: with every ship on the grid an attack outside
\* the grid is a miss that changes no ship.
C12_OffGridAttackIsMissWhenShipsOnGrid ==
    (ShipsOnGrid /\ coord # None /\ ~valid_coordinates(coord)) =>
        /\ ret = <<FALSE, FALSE>>
        /\ list_ships = before

\* the cells the exclusion of _get_likely_targets removes on this turn
ExcludedCandidates ==
    (_get_positions_near_hits(successful_hits)
        \cap _get_positions_near_ships(set_ships_opponent_previously_sunk, list_ships))
        \ set_coordinates_previous_shots

\* C13: on a constructed Board no cell of a ship that has not sunk is near
\* a ship that has sunk, so no cell near a remembered sunk ship holds an
\* undamaged part of a ship.
C13_NoLiveCellNearSunkShip ==
    /\ \A i \in DOMAIN list_ships : \A j \in DOMAIN list_ships :
           (has_sunk(list_ships[i]) /\ ~has_sunk(list_ships[j])) =>
               \A c \in Footprint(list_ships[j]) :
                   ~is_near_coordinate(list_ships[i], c)
    /\ \A c \in _get_positions_near_ships(set_ships_opponent_previously_sunk,
                                          list_ships) :
           \A j \in DOMAIN list_ships :
               c \in Footprint(list_ships[j]) => c \in Damaged(list_ships[j])

\* a ship has sunk and is remembered, another is afloat, and the exclusion
\* has removed neighbours of a hit from the candidates of this turn
C13_Witness ==
    /\ pc \in {"selected", "random"}
    /\ set_ships_opponent_previously_sunk # {}
    /\ \E j \in DOMAIN list_ships : ~has_sunk(list_ships[j])
    /\ ExcludedCandidates # {}

\* C14: after _update_sunk_ships, the first step of every turn of a
\* PlayerAutomatic, the remembered set holds exactly the opponent's ships
\* whose has_sunk() is true; no step removes a ship from the set.
C14_RememberedSetIsSunkShips ==
    [][/\ set_ships_opponent_previously_sunk \subseteq
              set_ships_opponent_previously_sunk'
       /\ (pc = "idle" /\ pc' # "idle") =>
              set_ships_opponent_previously_sunk' =
                  {i \in DOMAIN list_ships' : has_sunk(list_ships'[i])}]_vars

\* a turn has begun with a ship remembered from an earlier turn, a second
\* sunk ship added to the set and a third ship or none afloat
C14_Witness ==
    /\ pc \in {"selected", "random"}
    /\ Cardinality(set_ships_opponent_previously_sunk) >= 2

\* the coordinates around the grid that are near the ship s
NearCells(s) == {c \in Coordinates : is_near_coordinate(s, c)}

\* C15: is_near_coordinate(c) is true iff an occupied cell of the ship is
\* within Chebyshev distance 1 of c, the ship's own cells included; for a
\* ship of length 1 the near cells other than its cell are exactly the 8
\* cells around it.
C15_NearIffChebyshev ==
    coord # None =>
        LET s == list_ships[1]
        IN  /\ ret <=> \E a \in Footprint(s) : Chebyshev(a, coord) <= 1
            /\ coord \in Footprint(s) => ret
            /\ Cardinality(Footprint(s)) = 1 =>
                   /\ NearCells(s) \ Footprint(s) =
                          {c \in Coordinates :
                              \A a \in Footprint(s) : Chebyshev(a, c) = 1}
                   /\ Cardinality(NearCells(s) \ Footprint(s)) = 8

\* a ship of more than one cell was asked about the cell diagonal to its
\* end and answered that it is near
C15_Witness ==
    /\ coord # None
    /\ ret = TRUE
    /\ Cardinality(Footprint(list_ships[1])) > 1
    /\ coord = <<list_ships[1].x_end + 1, list_ships[1].y_end + 1>>

\* a ship of length 1 was asked about a cell two columns away and answered
\* that it is not near
C15_WitnessFar ==
    /\ coord # None
    /\ ret = FALSE
    /\ Cardinality(Footprint(list_ships[1])) = 1
    /\ coord = <<list_ships[1].x_end + 2, list_ships[1].y_end>>

\* C16: an attack at a coordinate no ship occupies leaves every ship's
\* damaged set and damage count as they were; an attack at a coordinate a
\* ship occupies changes that ship only, by adding at most the attacked
\* cell to its damaged set; the damaged cells of a ship are always among its
\* occupied cells and are never removed.
C16_AttackFrame ==
    /\ \A i \in DOMAIN list_ships :
           Damaged(list_ships[i]) \subseteq Footprint(list_ships[i])
    /\ coord # None =>
           /\ DOMAIN list_ships = DOMAIN before
           /\ \A i \in DOMAIN list_ships :
                  /\ Footprint(list_ships[i]) = Footprint(before[i])
                  /\ Damaged(before[i]) \subseteq Damaged(list_ships[i])
                  /\ Damaged(list_ships[i]) \ Damaged(before[i]) \subseteq {coord}
                  /\ coord \notin Footprint(before[i]) =>
                         /\ Damaged(list_ships[i]) = Damaged(before[i])
                         /\ number_damages(list_ships[i]) = number_damages(before[i])
           /\ Cardinality({i \in DOMAIN list_ships :
                               list_ships[i] # before[i]}) <= 1

\* a ship was hit on a fresh cell while another ship, damaged earlier, was
\* left as it was
C16_Witness ==
    /\ coord # None
    /\ ret[1] = TRUE
    /\ \E i \in DOMAIN list_ships : \E j \in DOMAIN list_ships :
          /\ i # j
          /\ Damaged(list_ships[i]) = Damaged(before[i]) \cup {coord}
          /\ coord \notin Damaged(before[i])
          /\ Damaged(list_ships[j]) # {}
          /\ list_ships[j] = before[j]

\* an attack on water after a hit: a miss that left the damaged ship alone
C16_WitnessMiss ==
    /\ coord # None
    /\ ret = <<FALSE, FALSE>>
    /\ list_ships = before
    /\ \E j \in DOMAIN list_ships : Damaged(list_ships[j]) # {}

\* the fleet list in the order p, a permutation of its positions
Permuted(ships, p) == [i \in DOMAIN ships |-> ships[p[i]]]

\* C17: in a constructed Board no cell is occupied by two ships, so
\* is_attacked_at returns the same pair and leaves the same damage on the
\* same ships whatever the order of the fleet list (every order of an
\* accepted fleet being accepted as well).
C17_FleetOrderIrrelevant ==
    /\ (board_state = "ok" /\ coord = None) =>
           /\ \A i \in DOMAIN list_ships : \A j \in DOMAIN list_ships :
                  i # j => Footprint(list_ships[i]) \cap Footprint(list_ships[j]) = {}
           /\ \A p \in Permutations(DOMAIN list_ships) :
                  /\ lengths_of_ships_correct(Permuted(list_ships, p))
                  /\ ~are_some_ships_too_close_from_each_other(Permuted(list_ships, p))
    /\ (board_state = "ok" /\ coord # None) =>
           /\ \A i \in DOMAIN list_ships :
                  Footprint(list_ships[i]) = Footprint(before[i])
           /\ \A p \in Permutations(DOMAIN before) :
                  /\ AttackResult(Permuted(before, p), coord) = ret
                  /\ ShipsAfterAttack(Permuted(before, p), coord) =
                         Permuted(list_ships, p)

\* the attack hit a ship that is not the first of the list, so another
\* order of the list has the scan reach it sooner
C17_Witness ==
    /\ board_state = "ok"
    /\ coord # None
    /\ ret[1] = TRUE
    /\ FirstShipOn(before, coord) > 1
    /\ list_ships # before

\* What a call of PlayerAutomatic.select_coordinates_to_attack may return,
\* as the code computes it from the attacker's fields and the opponent's
\* fleet: the candidate set and the cells the retry loop accepts.
SelectableCells(hits, remembered, attacked, ships) ==
    LET sunk == _update_sunk_ships(remembered, ships)
    IN  <<_get_likely_targets(hits, sunk, attacked, ships),
          {c \in Cells : ~RandomLoopContinues(c, attacked, sunk, ships)}>>

\* The opponent Boards that have the sunk ships of this one, where they
\* are, and ships afloat anywhere an accepted fleet allows (damaged where
\* the shots so far fell on them).
AlternativeBoards ==
    {b \in {[i \in DOMAIN list_ships |->
                IF has_sunk(list_ships[i]) THEN list_ships[i]
                ELSE [g[i] EXCEPT !.set_coordinates_damages =
                          Footprint(g[i]) \cap set_coordinates_previous_shots]] :
             g \in {f \in AcceptedFleets :
                       \A i \in DOMAIN list_ships :
                           has_sunk(list_ships[i]) =>
                               Footprint(f[i]) = Footprint(list_ships[i])}} :
        \A i \in DOMAIN list_ships : has_sunk(b[i]) = has_sunk(list_ships[i])}

\* What an opponent Board shows of its fleet to an observer who sees the
\* sunk ships only: each ship afloat is replaced by one and the same
\* undamaged ship.  Two Boards have the same sunk ships iff this is equal.
ShipAfloat == Ship(<<1, 1>>, <<1, 1>>)

SunkPart(ships) ==
    [i \in DOMAIN ships |-> IF has_sunk(ships[i]) THEN ships[i] ELSE ShipAfloat]

\* C18: with the attacker's memory fixed, the candidate set and the set of
\* cells the fallback may return are a function of the opponent's sunk
\* ships alone: they are what they would be with every ship afloat
\* replaced, hence the same for any two Boards with the same sunk ships.
C18_SelectionIgnoresShipsAfloat ==
    pc = "idle" =>
        SelectableCells(successful_hits, set_ships_opponent_previously_sunk,
                        set_positions_previously_attacked, SunkPart(list_ships))
          = SelectableCells(successful_hits, set_ships_opponent_previously_sunk,
                            set_positions_previously_attacked, list_ships)

\* The same, Board against Board: every accepted Board with the sunk ships
\* of this one and its other ships elsewhere gives the same two sets.
C18_TwoBoardsSameSelection ==
    pc = "idle" =>
        \A b \in AlternativeBoards :
            /\ SunkPart(b) = SunkPart(list_ships)
            /\ SelectableCells(successful_hits, set_ships_opponent_previously_sunk,
                               set_positions_previously_attacked, b)
                 = SelectableCells(successful_hits, set_ships_opponent_previously_sunk,
                                   set_positions_previously_attacked, list_ships)

\* a turn begins with a ship sunk, a damaged ship afloat that another
\* Board has elsewhere, and a cell left to return
C18_Witness ==
    /\ pc = "idle"
    /\ \E i \in DOMAIN list_ships : has_sunk(list_ships[i])
    /\ \E j \in DOMAIN list_ships :
          ~has_sunk(list_ships[j]) /\ Damaged(list_ships[j]) # {}
    /\ \E b \in AlternativeBoards : \E j \in DOMAIN list_ships :
          ~has_sunk(list_ships[j]) /\ Footprint(b[j]) # Footprint(list_ships[j])
    /\ SelectableCells(successful_hits, set_ships_opponent_previously_sunk,
                       set_positions_previously_attacked, list_ships)[2] # {}

\* ------------------------------------------------------ games to the end
\* A PlayerAutomatic attacks, turn after turn and for as long as it is
\* asked to, a constructed Board whose ships all lie on the grid.  The turn
\* is always taken, the opponent always resolves the attack, and the draws
\* of the retry loop are fair.
LiveInit == GameInit /\ ShipsOnGrid

LiveNext ==
    \/ select_coordinates_to_attack
    \/ \E c \in Cells : RandomDraw(c)
    \/ Resolve

LiveSpec ==
    /\ LiveInit
    /\ [][LiveNext]_vars
    /\ WF_vars(select_coordinates_to_attack)
    /\ WF_vars(\E c \in Cells : RandomDraw(c))
    /\ WF_vars(Resolve)

\* C19: a PlayerAutomatic that is the only attacker of a constructed Board
\* with every ship on the grid sinks the whole fleet in the end: never more
\* than SIZE_X * SIZE_Y attacks are resolved, a ship is afloat only while a
\* cell is left that the attacker may select, and has_lost() becomes true.
C19_OpponentLosesInTheEnd ==
    /\ [](/\ Cardinality(set_coordinates_previous_shots) <= SIZE_X * SIZE_Y
          /\ Cardinality(set_positions_previously_attacked) <= SIZE_X * SIZE_Y
          /\ (pc = "idle" /\ ~has_no_ships_left(list_ships)) =>
                 LET sel == SelectableCells(successful_hits,
                                set_ships_opponent_previously_sunk,
                                set_positions_previously_attacked, list_ships)
                 IN  sel[1] \cup sel[2] # {}
          /\ (pc = "random" /\ ~has_no_ships_left(list_ships)) =>
                 \E c \in Cells : LegalCell(c))
    /\ <>has_no_ships_left(list_ships)

\* the fleet is sunk, the last shot having been found by the retry loop
C19_Witness ==
    /\ pc = "idle"
    /\ has_no_ships_left(list_ships)
    /\ successful_hits # {}
    /\ set_coordinates_previous_shots \ successful_hits # {}

\* C20: between the calls of Player.attacks of an automatic attacker that
\* alone attacks its opponent, successful_hits is a subset of
\* set_positions_previously_attacked and is the union of the damaged cells
\* of the opponent's ships, and set_positions_previously_attacked is the
\* opponent Board's shot history.
C20_AttackerMemoryMatchesBoard ==
    /\ successful_hits \subseteq set_positions_previously_attacked
    /\ pc = "idle" =>
           /\ successful_hits =
                  UNION {Damaged(list_ships[i]) : i \in DOMAIN list_ships}
           /\ set_positions_previously_attacked = set_coordinates_previous_shots

\* after hits and misses, with a sunk ship remembered
C20_Witness ==
    /\ pc = "idle"
    /\ successful_hits # {}
    /\ set_positions_previously_attacked \ successful_hits # {}
    /\ set_ships_opponent_previously_sunk # {}

\* after hits and misses of a PlayerRandom
C20_WitnessRandom ==
    /\ pc = "idle"
    /\ successful_hits # {}
    /\ set_positions_previously_attacked \ successful_hits # {}
    /\ last_attack_coord # None
    /\ set_ships_opponent_previously_sunk = {}

\* C21: the construction of a BoardAutomatic that ends without raising
\* leaves a fleet with exactly one ship of each required length, no two
\* ships near each other, and every cell of every ship on the grid.
C21_GeneratedFleetValidOnGrid ==
    (gen_pc = "return" /\ board_state = "ok") =>
        /\ HistogramRight(list_ships)
        /\ ~TwoShipsTooClose(list_ships)
        /\ ShipsOnGrid

\* The parts of C21 that hold.  A construction that ends without raising
\* leaves the required lengths and no two ships near each other ...
C21_GeneratedFleetValid ==
    (gen_pc = "return" /\ board_state = "ok") =>
        /\ HistogramRight(list_ships)
        /\ ~TwoShipsTooClose(list_ships)

\* ... a ship leaves the grid only through a call of _generate_random_ship
\* that used up its tries ...
C21_OffGridOnlyAfterMaxTries ==
    (gen_pc = "append" /\ ~(Footprint(ship) \subseteq Cells)) => ship_t = _MAX_TRIES

\* ... and the construction always ends, with a Board or with a ValueError
\* of Board.__init__ (FairAutoSpec).
C21_ConstructionTerminates == <>(board_state # "new")

\* a construction that raised: no placement of a length was found
C21_WitnessRaised ==
    /\ gen_pc = "return"
    /\ board_state = "ValueError_lengths"
    /\ Len(list_ships) < MaxShipLength

=============================================================================
